---------------------------- MODULE Spec2Model ----------------------------
(***************************************************************************)
(* A model of @ramboqui/nestjs-autodi: the identity registry               *)
(* (convertInterface), the capability tagger (AutoInjectable,              *)
(* AutoController and the scanner queries), the unit loader                *)
(* (loadClassesFromPatterns) and the registration driver (AutoModule).     *)
(*                                                                         *)
(* JavaScript values are records [kind, ref]: undefined, booleans,         *)
(* numbers, classes (the scanned units), instances of the units and the    *)
(* identity classes convertInterface creates (numbered by their place in   *)
(* the heap).  The scanned units are unrelated classes: no unit extends    *)
(* another one.  Property and metadata keys are records [type, key], so    *)
(* that the symbol Symbol.for(k) and the string k are two keys.            *)
(***************************************************************************)
EXTENDS Integers, Sequences, FiniteSets, TLC

VARIABLES
    interfaceMap,   \* global[INTERFACE_MAP_KEY]: symbol -> identity object (0: no entry)
    heap,           \* the identity classes created so far, by object number
    metadataStore,  \* Reflect's metadata: unit -> metadata key -> value
    lastConvert,    \* history: name and result of the latest convertInterface call
    firstConvert,   \* history: name -> result of the first convertInterface(name)
    lastOptions,    \* history: unit -> the options of its latest AutoInjectable
    nTags,          \* history: the number of decorator applications so far
    fileContentCache, \* the loader's cache: file -> content read, null or absent
    call,           \* history: the AutoModule call of the run, what it was given and did
    lastCheck,      \* history: the instanceof test of the run and its result
    loaderRuns,     \* history: the loader invocations of the process, their number,
                    \* the files read from storage, served from the cache (and of
                    \* these the ones storage held otherwise), and required
    storage,        \* the files' text on storage: file -> readable, markers held
    globalObj       \* the global object: the value of global[INTERFACE_MAP_KEY], and as
                    \* history the Maps created and the loads of the identity module

vars == <<interfaceMap, heap, metadataStore, lastConvert, firstConvert, lastOptions, nTags,
          fileContentCache, call, lastCheck,
          loaderRuns, storage, globalObj>>

---------------------------------------------------------------------------
(* Bounds of the model *)

\* identity objects the heap may hold
MaxObjects == 3
\* decorator applications in one run
MaxTags == 3

\* interface names given to convertInterface
Names == {"X", "Y"}
\* the interface names of the runs that declare a module
ModuleNames == {"X"}
\* the scanned classes
Units == {1, 2, 3}
\* priorities given to AutoInjectable
PriorityValues == {-1, 0, 1}

---------------------------------------------------------------------------
(* JavaScript values *)

Undefined == [kind |-> "undefined", ref |-> 0]
True == [kind |-> "boolean", ref |-> 1]
Num(n) == [kind |-> "number", ref |-> n]
Class(u) == [kind |-> "class", ref |-> u]
Iface(o) == [kind |-> "iface", ref |-> o]
\* new cls(): an instance of unit u
Instance(u) == [kind |-> "instance", ref |-> u]
MapObject(n) == [kind |-> "map", ref |-> n]

\* Symbol.for(name): the runtime's symbol registry gives one symbol per key
SymbolFor(name) == [type |-> "symbol", key |-> name]
\* a string used as a key
Str(text) == [type |-> "string", key |-> text]
Symbols == {SymbolFor(n) : n \in Names}

\* if (v): every class is truthy, undefined is not
Truthy(v) == v.kind \in {"class", "iface", "instance", "map"} \/ (v.kind = "number" /\ v.ref # 0) \/ v = True

AUTO_INJECTABLE_KEY == SymbolFor("auto:injectable")
AUTO_CONTROLLER_KEY == SymbolFor("auto:controller")
AUTO_TOKEN_KEY == SymbolFor("auto:token")
AUTO_PRIORITY_KEY == SymbolFor("auto:priority")

\* the metadata keys the program writes or reads
MetadataKeys == {AUTO_INJECTABLE_KEY, AUTO_CONTROLLER_KEY, AUTO_TOKEN_KEY, AUTO_PRIORITY_KEY,
                 Str("auto:token")}

\* the run goes on until its AutoModule call or its instanceof test
Running == call.status = "none" /\ ~lastCheck.done

---------------------------------------------------------------------------
(* Identity registry *)

\* interfaceMap.get(id): the stored identity, or undefined
MapGet(map, id) == IF map[id] = 0 THEN Undefined ELSE Iface(map[id])

\* A convertInterface that never looks the name up.
convertInterfaceNoLookup(name, map, hp) ==
    LET id == SymbolFor(name)
        obj == [tag |-> id, name |-> name]
    IN [ret |-> Iface(Len(hp) + 1),
        map |-> [map EXCEPT ![id] = Len(hp) + 1],
        heap |-> Append(hp, obj)]

\* A convertInterface that keys every identity by one symbol.
convertInterfaceOneKey(name, map, hp) ==
    LET id == CHOOSE s \in Symbols : TRUE
        found == MapGet(map, id)
    IN IF Truthy(found)
       THEN [ret |-> found, map |-> map, heap |-> hp]
       ELSE [ret |-> Iface(Len(hp) + 1),
             map |-> [map EXCEPT ![id] = Len(hp) + 1],
             heap |-> Append(hp, [tag |-> id, name |-> name])]

\* convertInterface(name): the identity stored for Symbol.for(name), or a new
\* frozen class with tag and name, stored and returned.
convertInterface(name, map, hp) ==
    LET id == SymbolFor(name)
        found == MapGet(map, id)
    IN IF Truthy(found)
       THEN [ret |-> found, map |-> map, heap |-> hp]
       ELSE [ret |-> Iface(Len(hp) + 1),
             map |-> [map EXCEPT ![id] = Len(hp) + 1],
             heap |-> Append(hp, [tag |-> id, name |-> name])]

ConvertInterface(name) ==
    LET r == convertInterface(name, interfaceMap, heap)
    IN /\ Running
       /\ Len(r.heap) <= MaxObjects
       /\ interfaceMap' = r.map
       /\ heap' = r.heap
       /\ lastConvert' = [name |-> name, ret |-> r.ret]
       /\ firstConvert' = IF firstConvert[name] = Undefined
                          THEN [firstConvert EXCEPT ![name] = r.ret]
                          ELSE firstConvert
       /\ UNCHANGED <<metadataStore, lastOptions, nTags, fileContentCache, call, lastCheck,
                      loaderRuns, storage, globalObj>>

\* the bound on the loads of the identity module after the first
MaxReloads == 2

\* A module body that makes a new Map at every load.
initInterfaceMapAlwaysNew(g) ==
    [g EXCEPT !.slot = MapObject(g.maps + 1), !.maps = g.maps + 1]

\* the body of the identity module: if (!globalObj[INTERFACE_MAP_KEY])
\* globalObj[INTERFACE_MAP_KEY] = new Map()
initInterfaceMap(g) ==
    IF ~Truthy(g.slot)
    THEN [g EXCEPT !.slot = MapObject(g.maps + 1), !.maps = g.maps + 1]
    ELSE g

\* the global object after the first load of the identity module
FirstLoad == [initInterfaceMap([slot |-> Undefined, maps |-> 0, loads |-> 0])
                 EXCEPT !.loads = 1]

\* the identity module is loaded once more in the process (a second copy of
\* the package, or a module registry that was reset); its interfaceMap is the
\* Map of the global object
LoadIdentityModule ==
    LET g == initInterfaceMap(globalObj)
    IN /\ Running
       /\ globalObj.loads <= MaxReloads
       /\ globalObj' = [g EXCEPT !.loads = @ + 1]
       /\ interfaceMap' = IF g.slot = globalObj.slot THEN interfaceMap
                          ELSE [s \in Symbols |-> 0]
       /\ UNCHANGED <<heap, metadataStore, lastConvert, firstConvert, lastOptions, nTags,
                      fileContentCache, call, lastCheck, loaderRuns, storage>>

---------------------------------------------------------------------------
(* Capability tagger *)

\* Reflect.defineMetadata(key, value, target)
DefineMetadata(store, key, value, target) ==
    [store EXCEPT ![target] = [@ EXCEPT ![key] = value]]

\* Reflect.getMetadata(key, target): undefined when the key was never defined
GetMetadata(store, key, target) == store[target][key]

\* The options AutoInjectable may be given: an identity already created (or
\* none) and a priority (or none).
InjectableOptions ==
    [interfaceMetadata : {Undefined} \cup {Iface(o) : o \in 1..Len(heap)},
     priority : {Undefined} \cup {Num(p) : p \in PriorityValues}]

\* no AutoInjectable applied yet.  explicitPriority is the priority of the
\* latest application that gave one.
NoOptions == [applied |-> FALSE,
              options |-> [interfaceMetadata |-> Undefined, priority |-> Undefined],
              explicitPriority |-> Undefined]

\* An AutoInjectable that adds the given priority to the one already stored.
autoInjectableAdding(store, options, target) ==
    LET s1 == DefineMetadata(store, AUTO_INJECTABLE_KEY, True, target)
        s2 == IF Truthy(options.interfaceMetadata)
              THEN DefineMetadata(s1, AUTO_TOKEN_KEY, options.interfaceMetadata, target)
              ELSE DefineMetadata(s1, AUTO_TOKEN_KEY, Class(target), target)
        old == GetMetadata(store, AUTO_PRIORITY_KEY, target)
    IN IF options.priority # Undefined
       THEN DefineMetadata(s2, AUTO_PRIORITY_KEY,
                           IF old = Undefined THEN options.priority
                           ELSE Num(old.ref + options.priority.ref), target)
       ELSE s2

\* AutoInjectable(options)(target)
autoInjectable(store, options, target) ==
    LET s1 == DefineMetadata(store, AUTO_INJECTABLE_KEY, True, target)
        s2 == IF Truthy(options.interfaceMetadata)
              THEN DefineMetadata(s1, AUTO_TOKEN_KEY, options.interfaceMetadata, target)
              ELSE DefineMetadata(s1, AUTO_TOKEN_KEY, Class(target), target)
    IN IF options.priority # Undefined
       THEN DefineMetadata(s2, AUTO_PRIORITY_KEY, options.priority, target)
       ELSE s2

\* AutoController(prefix)(target)
autoController(store, target) ==
    DefineMetadata(store, AUTO_CONTROLLER_KEY, True, target)

isAutoInjectable(store, cls) == GetMetadata(store, AUTO_INJECTABLE_KEY, cls) = True

getAutoInjectableToken(store, cls) == GetMetadata(store, AUTO_TOKEN_KEY, cls)

\* A getAutoInjectablePriority without the default.
getAutoInjectablePriorityNoDefault(store, cls) ==
    GetMetadata(store, AUTO_PRIORITY_KEY, cls)

\* Reflect.getMetadata(AUTO_PRIORITY_KEY, cls) ?? 0
getAutoInjectablePriority(store, cls) ==
    LET v == GetMetadata(store, AUTO_PRIORITY_KEY, cls)
    IN IF v = Undefined THEN Num(0) ELSE v

isAutoController(store, cls) == GetMetadata(store, AUTO_CONTROLLER_KEY, cls) = True

AutoInjectable(target, options) ==
    /\ Running
    /\ nTags < MaxTags
    /\ metadataStore' = autoInjectable(metadataStore, options, target)
    /\ lastOptions' = [lastOptions EXCEPT ![target] =
                           [applied |-> TRUE, options |-> options,
                            explicitPriority |-> IF options.priority # Undefined
                                                 THEN options.priority
                                                 ELSE @.explicitPriority]]
    /\ nTags' = nTags + 1
    /\ UNCHANGED <<interfaceMap, heap, lastConvert, firstConvert, fileContentCache, call,
                   lastCheck, loaderRuns, storage, globalObj>>

AutoController(target) ==
    /\ Running
    /\ nTags < MaxTags
    /\ metadataStore' = autoController(metadataStore, target)
    /\ nTags' = nTags + 1
    /\ UNCHANGED <<interfaceMap, heap, lastConvert, firstConvert, lastOptions,
                   fileContentCache, call, lastCheck, loaderRuns, storage, globalObj>>

\* instance?.constructor
Constructor(instance) ==
    IF instance.kind = "instance" THEN Class(instance.ref) ELSE Undefined

\* doesImplement(instance, iface): the metadata is read under the string
\* 'auto:token'
doesImplement(store, instance, iface) ==
    IF ~Truthy(Constructor(instance)) THEN FALSE
    ELSE GetMetadata(store, Str("auto:token"), Constructor(instance).ref) = iface

\* instance instanceof iface: the identity's static [Symbol.hasInstance]
HasInstance(store, iface, instance) == doesImplement(store, instance, iface)

NoCheck == [done |-> FALSE, instance |-> Undefined, iface |-> Undefined, result |-> FALSE]

\* the values tested with instanceof: undefined and an instance of each unit
Instances == {Undefined} \cup {Instance(u) : u \in Units}

InstanceOf(instance, iface) ==
    /\ Running
    /\ lastCheck' = [done |-> TRUE, instance |-> instance, iface |-> iface,
                     result |-> HasInstance(metadataStore, iface, instance)]
    /\ UNCHANGED <<interfaceMap, heap, metadataStore, lastConvert, firstConvert, lastOptions,
                   nTags, fileContentCache, call, loaderRuns, storage, globalObj>>

---------------------------------------------------------------------------
(* The filesystem: a directory is a sequence of segment names, a file name *)
(* and the file part of a pattern are sequences of characters.             *)

TsExt == <<".", "t", "s">>
MdExt == <<".", "m", "d">>

\* text markers a file's content may hold
InjectableMarker == "@AutoInjectable("
ControllerMarker == "@AutoController("

\* The files on storage.  exports are the values of Object.keys(require(file)).
Files == <<
    [dir |-> <<"app", "svc">>, name |-> <<"a">> \o TsExt, readable |-> TRUE,
     markers |-> {InjectableMarker}, requireThrows |-> FALSE,
     exports |-> <<Class(1)>>],
    [dir |-> <<"app", "svc">>, name |-> <<"b">> \o TsExt, readable |-> TRUE,
     markers |-> {InjectableMarker}, requireThrows |-> FALSE,
     exports |-> <<Num(7), Class(2)>>],
    [dir |-> <<"app", "svc", "sub">>, name |-> <<"c">> \o TsExt, readable |-> TRUE,
     markers |-> {InjectableMarker, ControllerMarker}, requireThrows |-> FALSE,
     exports |-> <<Class(3)>>],
    [dir |-> <<"app", "svc">>, name |-> <<"i", "n", "d", "e", "x">> \o TsExt, readable |-> TRUE,
     markers |-> {}, requireThrows |-> FALSE,
     exports |-> <<Class(1), Class(2)>>],
    [dir |-> <<"app", "svc">>, name |-> <<"n">> \o MdExt, readable |-> TRUE,
     markers |-> {InjectableMarker}, requireThrows |-> FALSE,
     exports |-> <<>>],
    [dir |-> <<"app", "bad">>, name |-> <<"k">> \o TsExt, readable |-> FALSE,
     markers |-> {InjectableMarker}, requireThrows |-> FALSE,
     exports |-> <<Class(2)>>],
    [dir |-> <<"app", "bad">>, name |-> <<"r">> \o TsExt, readable |-> TRUE,
     markers |-> {InjectableMarker}, requireThrows |-> TRUE,
     exports |-> <<>>],
    [dir |-> <<"app", "bad">>, name |-> <<"z">> \o TsExt, readable |-> TRUE,
     markers |-> {InjectableMarker}, requireThrows |-> FALSE,
     exports |-> <<Class(3)>>] >>

FileIds == 1..Len(Files)

\* process.cwd(), and the directory of the module that applies AutoModule
Cwd == <<"app">>

IsPrefix(p, q) == Len(p) <= Len(q) /\ SubSeq(q, 1, Len(p)) = p

\* the directories that exist: every prefix of a file's directory
IsDirectory(d) == \E f \in FileIds : IsPrefix(d, Files[f].dir)

\* fs.readdirSync(dir, {withFileTypes}): the plain files of dir, in storage order
\* (sub-directories are listed too and are dropped by dirent.isFile())
RECURSIVE ReaddirFiles(_, _)
ReaddirFiles(d, f) ==
    IF f > Len(Files) THEN <<>>
    ELSE (IF Files[f].dir = d THEN <<f>> ELSE <<>>) \o ReaddirFiles(d, f + 1)

---------------------------------------------------------------------------
(* Patterns: [abs, segs, base], the directory segments and the file part *)

\* pattern.includes(sub) for the file part
RECURSIVE IncludesAt(_, _, _)
IncludesAt(str, sub, i) ==
    IF i + Len(sub) - 1 > Len(str) THEN FALSE
    ELSE SubSeq(str, i, i + Len(sub) - 1) = sub \/ IncludesAt(str, sub, i + 1)

Includes(str, sub) == IncludesAt(str, sub, 1)

\* pattern.includes('**')
IncludesDoubleStar(pattern) ==
    \/ \E i \in 1..Len(pattern.segs) : pattern.segs[i] = "**"
    \/ Includes(pattern.base, <<"*", "*">>)

\* path.isAbsolute(pattern) ? pattern : path.resolve(baseDir, pattern)
ResolvePattern(pattern, baseDir) ==
    IF pattern.abs THEN pattern
    ELSE [abs |-> TRUE, segs |-> baseDir \o pattern.segs, base |-> pattern.base]

\* filePath.endsWith('.ts') || filePath.endsWith('.js')
EndsWith(str, suffix) ==
    Len(str) >= Len(suffix) /\ SubSeq(str, Len(str) - Len(suffix) + 1, Len(str)) = suffix

isTsOrJs(f) == EndsWith(Files[f].name, TsExt) \/ EndsWith(Files[f].name, <<".", "j", "s">>)

\* filePattern.replace('*', '.*'): the first '*' only
RECURSIVE ReplaceFirstStar(_)
ReplaceFirstStar(str) ==
    IF str = <<>> THEN <<>>
    ELSE IF Head(str) = "*" THEN <<".", "*">> \o Tail(str)
    ELSE <<Head(str)>> \o ReplaceFirstStar(Tail(str))

\* new RegExp('^' + src + '$').test(name): in src '.' is any character, 'x*'
\* is any run of x, every other character is itself
RECURSIVE RegexMatch(_, _)
RegexMatch(src, name) ==
    IF src = <<>> THEN name = <<>>
    ELSE LET c == Head(src)
             starred == Len(src) >= 2 /\ src[2] = "*"
             hit == name # <<>> /\ (c = "." \/ c = Head(name))
         IN IF starred
            THEN \/ RegexMatch(Tail(Tail(src)), name)
                 \/ hit /\ RegexMatch(src, Tail(name))
            ELSE hit /\ RegexMatch(Tail(src), Tail(name))

\* glob's match of one path segment: '*' is any run of characters, '?' any
\* one character
RECURSIVE GlobNameMatch(_, _)
GlobNameMatch(pat, name) ==
    IF pat = <<>> THEN name = <<>>
    ELSE IF Head(pat) = "*"
         THEN \/ GlobNameMatch(Tail(pat), name)
              \/ name # <<>> /\ GlobNameMatch(pat, Tail(name))
         ELSE /\ name # <<>>
              /\ (Head(pat) = "?" \/ Head(pat) = Head(name))
              /\ GlobNameMatch(Tail(pat), Tail(name))

\* glob's match of the directory part: '**' is any run of directories, '*'
\* any one directory
RECURSIVE GlobDirMatch(_, _)
GlobDirMatch(segs, dir) ==
    IF segs = <<>> THEN dir = <<>>
    ELSE IF Head(segs) = "**"
         THEN \/ GlobDirMatch(Tail(segs), dir)
              \/ dir # <<>> /\ GlobDirMatch(segs, Tail(dir))
         ELSE /\ dir # <<>>
              /\ (Head(segs) = "*" \/ Head(segs) = Head(dir))
              /\ GlobDirMatch(Tail(segs), Tail(dir))

\* glob.sync(pattern, {absolute: true, nodir: true}), in storage order
RECURSIVE GlobSync(_, _)
GlobSync(pattern, f) ==
    IF f > Len(Files) THEN <<>>
    ELSE (IF GlobDirMatch(pattern.segs, Files[f].dir) /\ GlobNameMatch(pattern.base, Files[f].name)
          THEN <<f>> ELSE <<>>) \o GlobSync(pattern, f + 1)

\* the directory entries the direct strategy passes on
RECURSIVE FilterByRegex(_, _)
FilterByRegex(files, src) ==
    IF files = <<>> THEN <<>>
    ELSE (IF RegexMatch(src, Files[Head(files)].name) THEN <<Head(files)>> ELSE <<>>)
         \o FilterByRegex(Tail(files), src)

\* the patterns of the runs
StarTs == <<"*">> \o TsExt
PatDeep == [abs |-> FALSE, segs |-> <<"svc", "**">>, base |-> StarTs]
PatDir == [abs |-> FALSE, segs |-> <<"svc">>, base |-> StarTs]
PatFileA == [abs |-> FALSE, segs |-> <<"svc">>, base |-> <<"a">> \o TsExt]
PatFileB == [abs |-> FALSE, segs |-> <<"svc">>, base |-> <<"b">> \o TsExt]

\* patterns for the loader's other paths: a directory with a file that cannot
\* be read and one whose require throws, a directory part that cannot be
\* listed, a file part that names no file
PatBadDir == [abs |-> FALSE, segs |-> <<"bad">>, base |-> StarTs]
PatFileK == [abs |-> FALSE, segs |-> <<"bad">>, base |-> <<"k">> \o TsExt]
PatFileZ == [abs |-> FALSE, segs |-> <<"bad">>, base |-> <<"z">> \o TsExt]
PatStarDir == [abs |-> FALSE, segs |-> <<"svc", "*">>, base |-> StarTs]
PatQuestion == [abs |-> FALSE, segs |-> <<"svc">>, base |-> <<"?">> \o TsExt]
PatNone == [abs |-> FALSE, segs |-> <<"svc">>, base |-> <<"q">> \o TsExt]

\* a pattern relative to the directory of a module in svc/, an absolute one
PatSub == [abs |-> FALSE, segs |-> <<"sub">>, base |-> StarTs]
PatAbs == [abs |-> TRUE, segs |-> <<"app", "svc">>, base |-> StarTs]

\* file parts with a '*' behind a letter and with two '*'
PatAStar == [abs |-> FALSE, segs |-> <<"svc">>, base |-> <<"a", "*">> \o TsExt]
PatStarAStar == [abs |-> FALSE, segs |-> <<"svc">>, base |-> <<"*", "a", "*">> \o TsExt]

\* the patterns above as loadClassesFromPatterns resolves them
KnownPatterns ==
    {ResolvePattern(p, Cwd) :
         p \in {PatDeep, PatDir, PatFileA, PatFileB, PatBadDir, PatFileK, PatFileZ,
                PatStarDir, PatQuestion, PatNone}}

\* glob.sync and the direct strategy's listing, computed once for each of them
GlobTable == [p \in KnownPatterns |-> GlobSync(p, 1)]

DirectTable ==
    [p \in KnownPatterns |-> FilterByRegex(ReaddirFiles(p.segs, 1), ReplaceFirstStar(p.base))]

\* glob.sync(pattern)
GlobFiles(pattern) ==
    IF pattern \in KnownPatterns THEN GlobTable[pattern] ELSE GlobSync(pattern, 1)

\* fs.readdirSync(dir).filter((f) => regex.test(f))
DirectFiles(pattern) ==
    IF pattern \in KnownPatterns THEN DirectTable[pattern]
    ELSE FilterByRegex(ReaddirFiles(pattern.segs, 1), ReplaceFirstStar(pattern.base))

---------------------------------------------------------------------------
(* Unit loader.  A loader state is [classes, cache, disk, threw, reads,    *)
(* hits, requires, globs, debug, log]: the classes array, fileContentCache, *)
(* the files' text on storage, whether an error is propagating, the files   *)
(* read from storage, served from the cache and required so far, the        *)
(* patterns given to glob.sync, the debug option and the console output.    *)

NotCached == [kind |-> "absent", markers |-> {}]
Null == [kind |-> "null", markers |-> {}]
Text(disk, f) == [kind |-> "string", markers |-> disk[f].markers]

\* A getFileContent that reads the file from storage at every call.
getFileContentNoCache(ls, f) ==
    LET c == IF ls.disk[f].readable THEN Text(ls.disk, f) ELSE Null
    IN [content |-> c,
        ls |-> [ls EXCEPT !.cache = [@ EXCEPT ![f] = c], !.reads = Append(@, f)]]

\* A getFileContent that reads a file again when its cached content is null.
getFileContentRetry(ls, f) ==
    IF ls.cache[f].kind = "string"
    THEN [content |-> ls.cache[f], ls |-> [ls EXCEPT !.hits = Append(@, f)]]
    ELSE LET c == IF ls.disk[f].readable THEN Text(ls.disk, f) ELSE Null
         IN [content |-> c,
             ls |-> [ls EXCEPT !.cache = [@ EXCEPT ![f] = c], !.reads = Append(@, f)]]

\* getFileContent(filePath): the cached content, or the content read from
\* storage and cached (null when the read fails)
getFileContent(ls, f) ==
    IF ls.cache[f] # NotCached
    THEN [content |-> ls.cache[f], ls |-> [ls EXCEPT !.hits = Append(@, f)]]
    ELSE LET c == IF ls.disk[f].readable THEN Text(ls.disk, f) ELSE Null
         IN [content |-> c,
             ls |-> [ls EXCEPT !.cache = [@ EXCEPT ![f] = c], !.reads = Append(@, f)]]

\* the exported values with typeof 'function', as unit numbers
RECURSIVE ExportedClasses(_)
ExportedClasses(exports) ==
    IF exports = <<>> THEN <<>>
    ELSE (IF Head(exports).kind \in {"class", "iface"} THEN <<Head(exports).ref>> ELSE <<>>)
         \o ExportedClasses(Tail(exports))

\* A loadClassesFromFile that prints the file instead of loading it when debug
\* is set.
loadClassesFromFileDebugOnly(ls, f) ==
    IF Files[f].requireThrows
    THEN [ls EXCEPT !.threw = TRUE, !.requires = Append(@, f)]
    ELSE IF ls.debug
         THEN [ls EXCEPT !.requires = Append(@, f),
                         !.log = Append(@, [msg |-> "Loaded classes from", arg |-> f])]
         ELSE [ls EXCEPT !.classes = @ \o ExportedClasses(Files[f].exports),
                         !.requires = Append(@, f)]

\* A loadClassesFromFile that puts the classes of a file in front of the ones
\* found so far.
loadClassesFromFileInFront(ls, f) ==
    IF Files[f].requireThrows
    THEN [ls EXCEPT !.threw = TRUE, !.requires = Append(@, f)]
    ELSE [ls EXCEPT !.classes = ExportedClasses(Files[f].exports) \o @,
                    !.requires = Append(@, f),
                    !.log = IF ls.debug
                            THEN Append(@, [msg |-> "Loaded classes from", arg |-> f])
                            ELSE @]

\* loadClassesFromFile(filePath, classes): require may throw
loadClassesFromFile(ls, f) ==
    IF Files[f].requireThrows
    THEN [ls EXCEPT !.threw = TRUE, !.requires = Append(@, f)]
    ELSE [ls EXCEPT !.classes = @ \o ExportedClasses(Files[f].exports),
                    !.requires = Append(@, f),
                    !.log = IF ls.debug
                            THEN Append(@, [msg |-> "Loaded classes from", arg |-> f])
                            ELSE @]

\* A pre-filter that lets a file through only when this invocation read it
\* from storage.
LoadIfAnnotatedOnce(got, f) ==
    IF got.content.kind # "string" THEN got.ls
    ELSE IF /\ \/ InjectableMarker \in got.content.markers
               \/ ControllerMarker \in got.content.markers
            /\ \E i \in 1..Len(got.ls.reads) : got.ls.reads[i] = f
         THEN loadClassesFromFile(got.ls, f)
         ELSE got.ls

\* loadClassesFromFileIfAnnotated(filePath, classes), from the content on:
\* if (!content) return; the two content.includes() tests; loadClassesFromFile
LoadIfAnnotated(got, f) ==
    IF got.content.kind # "string" THEN got.ls
    ELSE IF InjectableMarker \in got.content.markers
            \/ ControllerMarker \in got.content.markers
         THEN loadClassesFromFile(got.ls, f)
         ELSE got.ls

\* loadClassesFromFileIfAnnotated(filePath, classes)
loadClassesFromFileIfAnnotated(ls, f) ==
    IF ~isTsOrJs(f) THEN ls
    ELSE LoadIfAnnotated(getFileContent(ls, f), f)

\* for (const file of files) loadClassesFromFileIfAnnotated(file, classes),
\* left as soon as a call throws
RECURSIVE LoadEach(_, _)
LoadEach(ls, files) ==
    IF files = <<>> \/ ls.threw THEN ls
    ELSE LoadEach(loadClassesFromFileIfAnnotated(ls, Head(files)), Tail(files))

\* loadClassesWithGlob(pattern, classes)
loadClassesWithGlob(ls, pattern) ==
    LoadEach([ls EXCEPT !.globs = Append(@, pattern)], GlobFiles(pattern))

\* A catch that hands the error of the try block on.
CatchRethrow(tried, finalPattern) == tried

\* the catch of handleSimplePattern: when the try block threw, the glob
\* strategy takes the pattern, with the classes pushed so far
CatchWithGlob(tried, finalPattern) ==
    IF tried.threw
    THEN loadClassesWithGlob([tried EXCEPT !.threw = FALSE], finalPattern)
    ELSE tried

\* handleSimplePattern(finalPattern, classes)
handleSimplePattern(ls, finalPattern) ==
    LET dir == finalPattern.segs
        filePattern == finalPattern.base
    IN IF Includes(filePattern, <<"*">>)
       THEN CatchWithGlob(IF IsDirectory(dir)
                          THEN LoadEach(ls, DirectFiles(finalPattern))
                          ELSE [ls EXCEPT !.threw = TRUE],
                          finalPattern)
       ELSE IF \E f \in FileIds : Files[f].dir = dir /\ Files[f].name = filePattern
            THEN loadClassesFromFileIfAnnotated(ls,
                     CHOOSE f \in FileIds : Files[f].dir = dir /\ Files[f].name = filePattern)
            ELSE loadClassesWithGlob(ls, finalPattern)

\* handleComplexPattern(finalPattern, classes)
handleComplexPattern(ls, finalPattern) == loadClassesWithGlob(ls, finalPattern)

\* loadClassesFromPatterns(patterns, {baseDir, debug}), started with an empty
\* classes array and the cache as it stands
RECURSIVE LoadPatterns(_, _, _)
LoadPatterns(ls, patterns, baseDir) ==
    IF patterns = <<>> \/ ls.threw THEN ls
    ELSE LoadPatterns(IF ~IncludesDoubleStar(Head(patterns))
                      THEN handleSimplePattern(ls, ResolvePattern(Head(patterns), baseDir))
                      ELSE handleComplexPattern(ls, ResolvePattern(Head(patterns), baseDir)),
                      Tail(patterns), baseDir)

\* the text of the files as the process finds them at its start
InitialStorage ==
    [f \in FileIds |-> [readable |-> Files[f].readable, markers |-> Files[f].markers]]

\* the loader state of an invocation that has done nothing yet, over the
\* files of disk
NoLoadFrom(disk, cache, debug) ==
    [classes |-> <<>>, cache |-> cache, disk |-> disk, threw |-> FALSE, reads |-> <<>>,
     hits |-> <<>>,
     requires |-> <<>>, globs |-> <<>>, debug |-> debug, log |-> <<>>]

NoLoad(cache, debug) == NoLoadFrom(storage, cache, debug)

loadClassesFromPatterns(patterns, options, cache) ==
    LoadPatterns(NoLoad(cache, options.debug), patterns, options.baseDir)

---------------------------------------------------------------------------
(* Registration driver *)

\* The words getCallerDir looks for and the segments of the file paths of the
\* runs that contain them as text: String.includes finds a word inside a
\* longer segment as well.
SkipWords ==
    {"node_modules", "reflect-metadata", "auto-module.decorator.js", "auto-module.decorator.ts"}

TextOf(segment) ==
    IF segment \in SkipWords THEN {segment}
    ELSE IF segment = "reflect-metadata-demo" THEN {"reflect-metadata"}
    ELSE {}

\* filePath.includes(word)
PathIncludes(filePath, word) == \E i \in 1..Len(filePath) : word \in TextOf(filePath[i])

\* path.dirname(filePath)
Dirname(filePath) == SubSeq(filePath, 1, Len(filePath) - 1)

\* getCallerDir(): the directory of the first line of the stack that the
\* regular expression matches and whose file path includes none of the four
\* words; process.cwd() when there is none
RECURSIVE getCallerDir(_)
getCallerDir(stack) ==
    IF stack = <<>> THEN Cwd
    ELSE LET line == Head(stack)
         IN IF line.matches
               /\ ~PathIncludes(line.filePath, "node_modules")
               /\ ~PathIncludes(line.filePath, "reflect-metadata")
               /\ ~PathIncludes(line.filePath, "auto-module.decorator.js")
               /\ ~PathIncludes(line.filePath, "auto-module.decorator.ts")
            THEN Dirname(line.filePath)
            ELSE getCallerDir(Tail(stack))

\* implMap.has(token)
MapHas(implMap, token) == \E i \in 1..Len(implMap) : implMap[i].token = token

\* A grouping that starts a new group for every implementation.
MapPushAlwaysNew(implMap, token, impl) ==
    Append(implMap, [token |-> token, impls |-> <<impl>>])

\* if (!implMap.has(token)) implMap.set(token, []); implMap.get(token).push(impl)
MapPush(implMap, token, impl) ==
    IF MapHas(implMap, token)
    THEN [i \in 1..Len(implMap) |->
             IF implMap[i].token = token
             THEN [implMap[i] EXCEPT !.impls = Append(@, impl)]
             ELSE implMap[i]]
    ELSE Append(implMap, [token |-> token, impls |-> <<impl>>])

\* for (const cls of providerClasses) if (isAutoInjectable(cls)) ...
RECURSIVE BuildImplMap(_, _, _)
BuildImplMap(store, classes, implMap) ==
    IF classes = <<>> THEN implMap
    ELSE LET cls == Head(classes)
             next == IF isAutoInjectable(store, cls)
                     THEN MapPush(implMap, getAutoInjectableToken(store, cls),
                                  [cls |-> cls,
                                   priority |-> getAutoInjectablePriority(store, cls).ref])
                     ELSE implMap
         IN BuildImplMap(store, Tail(classes), next)

\* An insertion for the comparator (a, b) => a.priority - b.priority.
RECURSIVE InsertByPriorityAscending(_, _)
InsertByPriorityAscending(sorted, x) ==
    IF sorted = <<>> THEN <<x>>
    ELSE IF x.priority - Head(sorted).priority < 0
         THEN <<x>> \o sorted
         ELSE <<Head(sorted)>> \o InsertByPriorityAscending(Tail(sorted), x)

\* impls.sort((a, b) => b.priority - a.priority): a stable sort, so x goes
\* behind every element whose priority is not below its own
RECURSIVE InsertByPriority(_, _)
InsertByPriority(sorted, x) ==
    IF sorted = <<>> THEN <<x>>
    ELSE IF Head(sorted).priority - x.priority < 0
         THEN <<x>> \o sorted
         ELSE <<Head(sorted)>> \o InsertByPriority(Tail(sorted), x)

\* A sort that leaves the implementations in discovery order.
SortImplsKeepOrder(impls, sorted) == impls

RECURSIVE SortImpls(_, _)
SortImpls(impls, sorted) ==
    IF impls = <<>> THEN sorted
    ELSE SortImpls(Tail(impls), InsertByPriority(sorted, Head(impls)))

\* if (impls.length > 1 && impls[0].priority === impls[1].priority) throw,
\* with impls sorted; otherwise impls[0] wins
TopOfSorted(sorted) ==
    IF Len(sorted) > 1 /\ sorted[1].priority = sorted[2].priority
    THEN [conflict |-> TRUE, winner |-> sorted[1]]
    ELSE [conflict |-> FALSE, winner |-> sorted[1]]

\* One turn of the loop over implMap.entries(): the winner of a group, or the
\* Conflict error.
ResolveGroup(impls) ==
    IF Len(impls) = 1
    THEN [conflict |-> FALSE, winner |-> impls[1]]
    ELSE TopOfSorted(SortImpls(impls, <<>>))

\* A resolution that binds the first implementation of a tied group.
PushWinnerWarnOnly(acc, token, r) ==
    [acc EXCEPT
        !.allProviders = Append(@, [provide |-> token, useClass |-> Class(r.winner.cls)]),
        !.loadedProviders = Append(@, [token |-> token, cls |-> r.winner.cls,
                                       priority |-> r.winner.priority])]

\* allProviders with its entries for token replaced by the one entry
RECURSIVE ReplaceEntry(_, _, _)
ReplaceEntry(providers, entry, done) ==
    IF providers = <<>> THEN (IF done THEN <<>> ELSE <<entry>>)
    ELSE IF Head(providers).provide = entry.provide
         THEN (IF done THEN <<>> ELSE <<entry>>) \o ReplaceEntry(Tail(providers), entry, TRUE)
         ELSE <<Head(providers)>> \o ReplaceEntry(Tail(providers), entry, done)

\* A resolution in which a winner takes the place of an entry with its identity.
PushWinnerReplacing(acc, token, r) ==
    IF r.conflict
    THEN [acc EXCEPT !.threw = TRUE, !.conflictToken = token]
    ELSE [acc EXCEPT
             !.allProviders = ReplaceEntry(@, [provide |-> token,
                                               useClass |-> Class(r.winner.cls)], FALSE),
             !.loadedProviders = Append(@, [token |-> token, cls |-> r.winner.cls,
                                            priority |-> r.winner.priority])]

\* the push of a group's winner on allProviders and loadedProviders, or the
\* throw of the Conflict error; rest.providers, the caller's array, is left
\* as it is
PushWinner(acc, token, r) ==
    IF r.conflict
    THEN [acc EXCEPT !.threw = TRUE, !.conflictToken = token]
    ELSE [acc EXCEPT
             !.allProviders = Append(@, [provide |-> token, useClass |-> Class(r.winner.cls)]),
             !.loadedProviders = Append(@, [token |-> token, cls |-> r.winner.cls,
                                            priority |-> r.winner.priority])]

\* for (const [token, impls] of implMap.entries()): the loop ends at the first
\* Conflict
RECURSIVE ResolveAll(_, _)
ResolveAll(implMap, acc) ==
    IF implMap = <<>> \/ acc.threw THEN acc
    ELSE ResolveAll(Tail(implMap),
                    PushWinner(acc, Head(implMap).token, ResolveGroup(Head(implMap).impls)))

\* let allProviders = rest.providers ? [...rest.providers] : []: the state of
\* the provider part before any group is resolved
NoResolution(providers) ==
    [threw |-> FALSE, conflictToken |-> Undefined, allProviders |-> providers,
     loadedProviders |-> <<>>, callerProviders |-> providers]

\* A filter that keeps the units tagged as providers.
RECURSIVE FilterControllersByInjectable(_, _)
FilterControllersByInjectable(store, classes) ==
    IF classes = <<>> THEN <<>>
    ELSE (IF isAutoInjectable(store, Head(classes)) THEN <<Class(Head(classes))>> ELSE <<>>)
         \o FilterControllersByInjectable(store, Tail(classes))

\* for (const cls of controllerClasses) if (isAutoController(cls)) ...
RECURSIVE FilterControllers(_, _)
FilterControllers(store, classes) ==
    IF classes = <<>> THEN <<>>
    ELSE (IF isAutoController(store, Head(classes)) THEN <<Class(Head(classes))>> ELSE <<>>)
         \o FilterControllers(store, Tail(classes))

\* one console line per element of a listing
RECURSIVE LogEach(_, _)
LogEach(msg, items) ==
    IF items = <<>> THEN <<>>
    ELSE <<[msg |-> msg, arg |-> Head(items)]>> \o LogEach(msg, Tail(items))

\* if (debug): the lines printed after Module(), the time left out
DebugListing(loadedProviders, loadedControllers) ==
    <<[msg |-> "AutoModule completed scanning", arg |-> 0]>>
    \o (IF Len(loadedProviders) > 0
        THEN <<[msg |-> "Loaded Providers:", arg |-> 0]>> \o LogEach("Token", loadedProviders)
        ELSE <<[msg |-> "No providers loaded from scanning.", arg |-> 0]>>)
    \o (IF Len(loadedControllers) > 0
        THEN <<[msg |-> "Loaded Controllers:", arg |-> 0]>>
                 \o LogEach("Controller", loadedControllers)
        ELSE <<[msg |-> "No controllers loaded from scanning.", arg |-> 0]>>)

\* The end of AutoModule: Module(finalMetadata)(target) unless an error left
\* the call.  status is "registered" when Module() was called, "conflict" when
\* the Conflict error left the call, "error" when an error of the loader did.
Registration(store, metadata, baseDir, pl, res, cl) ==
    LET done == ~pl.threw /\ ~res.threw /\ ~cl.threw
    IN [status |-> IF done THEN "registered"
                   ELSE IF res.threw THEN "conflict" ELSE "error",
        baseDir |-> baseDir,
        providerClasses |-> pl.classes,
        controllerClasses |-> cl.classes,
        conflictToken |-> res.conflictToken,
        moduleCalls |-> IF done THEN 1 ELSE 0,
        providers |-> IF done THEN res.allProviders ELSE <<>>,
        controllers |-> IF done
                        THEN metadata.controllers \o FilterControllers(store, cl.classes)
                        ELSE <<>>,
        callerProviders |-> res.callerProviders,
        callerControllers |-> metadata.controllers,
        loads |-> (IF Len(metadata.providersPath) > 0 THEN 1 ELSE 0)
                  + (IF done /\ Len(metadata.controllersPath) > 0 THEN 1 ELSE 0),
        reads |-> pl.reads \o cl.reads,
        hits |-> pl.hits \o cl.hits,
        requires |-> pl.requires \o cl.requires,
        globs |-> pl.globs \o cl.globs,
        log |-> IF metadata.debug
                THEN <<[msg |-> "AutoModule scanning with baseDir", arg |-> 0]>>
                     \o pl.log \o cl.log
                     \o (IF done
                         THEN DebugListing(res.loadedProviders,
                                           FilterControllers(store, cl.classes))
                         ELSE <<>>)
                ELSE <<>>,
        cache |-> cl.cache]

\* A controller scan that runs before the groups are resolved, whether or not
\* the resolution raises the Conflict.
ControllerPartFirst(store, metadata, baseDir, pl, res) ==
    Registration(store, metadata, baseDir, pl, res,
                 IF ~pl.threw /\ Len(metadata.controllersPath) > 0
                 THEN loadClassesFromPatterns(metadata.controllersPath,
                                              [baseDir |-> baseDir, debug |-> metadata.debug],
                                              pl.cache)
                 ELSE NoLoad(pl.cache, metadata.debug))

\* if (controllersPath && controllersPath.length > 0): the controller scan,
\* reached when no error left the provider part
ControllerPart(store, metadata, baseDir, pl, res) ==
    Registration(store, metadata, baseDir, pl, res,
                 IF ~pl.threw /\ ~res.threw /\ Len(metadata.controllersPath) > 0
                 THEN loadClassesFromPatterns(metadata.controllersPath,
                                              [baseDir |-> baseDir, debug |-> metadata.debug],
                                              pl.cache)
                 ELSE NoLoad(pl.cache, metadata.debug))

\* the grouping and resolution of the provider classes
ResolutionPart(store, metadata, baseDir, pl) ==
    ControllerPart(store, metadata, baseDir, pl,
                   ResolveAll(IF pl.threw THEN <<>> ELSE BuildImplMap(store, pl.classes, <<>>),
                              NoResolution(metadata.providers)))

\* if (providersPath && providersPath.length > 0): the provider scan
ProviderPart(store, cache, metadata, baseDir) ==
    ResolutionPart(store, metadata, baseDir,
                   IF Len(metadata.providersPath) > 0
                   THEN loadClassesFromPatterns(metadata.providersPath,
                                                [baseDir |-> baseDir, debug |-> metadata.debug],
                                                cache)
                   ELSE NoLoad(cache, metadata.debug))

\* AutoModule(metadata)(target): what the call does, given the metadata store
\* and the content cache
autoModule(store, cache, metadata, stack) ==
    ProviderPart(store, cache, metadata, getCallerDir(stack))

\* the pattern lists and module declarations of the runs
PathChoices == {<<>>, <<PatDeep>>, <<PatDir>>, <<PatFileB, PatFileA>>, <<PatFileA, PatDir>>}

\* pattern lists for the loader's other paths
LoaderChoices ==
    {<<PatBadDir>>, <<PatFileK, PatFileZ>>, <<PatStarDir, PatNone>>, <<PatQuestion>>,
     <<PatNone>>}

\* an explicit provider, written as a class, stands for {provide: cls, useClass: cls}
ExplicitChoices ==
    {[providers |-> <<>>, controllers |-> <<>>],
     [providers |-> <<[provide |-> Class(3), useClass |-> Class(3)]>>,
      controllers |-> <<Class(3)>>]}

ModuleMetadata ==
    {[providersPath |-> pp, controllersPath |-> cp, debug |-> d,
      providers |-> e.providers, controllers |-> e.controllers] :
        pp \in PathChoices, cp \in {<<>>, <<PatDeep>>}, d \in BOOLEAN, e \in ExplicitChoices}

\* a line of the stack with a file path in parentheses
Frame(filePath) == [matches |-> TRUE, filePath |-> filePath]

\* a line of the stack the regular expression does not match
NativeFrame == [matches |-> FALSE, filePath |-> <<>>]

DecoratorFrame == Frame(<<"lib", "auto-module.decorator.ts">>)
ReflectFrame == Frame(<<"node_modules", "reflect-metadata", "Reflect.js">>)

\* the module declared in app/, by no file, in app/svc/, and in a directory
\* whose name holds the text reflect-metadata
CallerStack == <<DecoratorFrame, ReflectFrame, Frame(<<"app", "app.module.ts">>)>>
NoCallerStack == <<DecoratorFrame, NativeFrame>>
SvcCallerStack == <<DecoratorFrame, ReflectFrame, Frame(<<"app", "svc", "svc.module.ts">>),
                    Frame(<<"app", "main.ts">>)>>
DemoCallerStack == <<DecoratorFrame, ReflectFrame,
                     Frame(<<"app", "reflect-metadata-demo", "demo.module.ts">>),
                     Frame(<<"app", "svc", "main.ts">>)>>

\* declarations that scan the providers of LoaderChoices and nothing else
LoaderMetadata ==
    {[providersPath |-> pp, controllersPath |-> <<>>, debug |-> FALSE,
      providers |-> <<>>, controllers |-> <<>>] : pp \in LoaderChoices}

\* the AutoModule calls of the runs: every declaration without debug from the
\* caller's directory, and the deep scan with debug and with no caller frame
ModuleCalls ==
    {[metadata |-> m, stack |-> CallerStack] :
         m \in {x \in ModuleMetadata : ~x.debug} \cup LoaderMetadata}
    \cup {[metadata |-> m, stack |-> NoCallerStack] :
              m \in {x \in ModuleMetadata : x.debug /\ x.providersPath = <<PatDeep>>}}

\* declarations from the four places, with a relative pattern for each place
\* and an absolute one
CallerMetadata ==
    {[providersPath |-> pp, controllersPath |-> <<>>, debug |-> FALSE,
      providers |-> <<>>, controllers |-> <<>>] :
         pp \in {<<PatSub>>, <<PatAbs>>, <<PatDeep>>, <<PatAbs, PatSub>>}}

CallerCalls ==
    {[metadata |-> m, stack |-> st] :
         m \in CallerMetadata,
         st \in {CallerStack, NoCallerStack, SvcCallerStack, DemoCallerStack}}

\* declarations with several patterns on both sides
OrderMetadata ==
    {[providersPath |-> pp, controllersPath |-> cp, debug |-> FALSE,
      providers |-> e.providers, controllers |-> e.controllers] :
         pp \in {<<PatFileB, PatFileA>>, <<PatDir, PatFileA>>},
         cp \in {<<PatDeep>>, <<PatFileB, PatDeep>>},
         e \in ExplicitChoices}

OrderCalls == {[metadata |-> m, stack |-> CallerStack] : m \in OrderMetadata}

\* declarations whose one provider pattern goes to the direct strategy
MatchMetadata ==
    {[providersPath |-> <<p>>, controllersPath |-> <<>>, debug |-> FALSE,
      providers |-> <<>>, controllers |-> <<>>] : p \in {PatDir, PatAStar, PatStarAStar}}

MatchCalls == {[metadata |-> m, stack |-> CallerStack] : m \in MatchMetadata}

\* the declarations of the modules declared first, and of the module
\* declared after them
BeforeCalls ==
    {[metadata |-> [providersPath |-> pp, controllersPath |-> <<PatDeep>>, debug |-> FALSE,
                    providers |-> <<>>, controllers |-> <<>>],
      stack |-> CallerStack] : pp \in {<<PatDir>>, <<PatBadDir>>}}

AfterCalls ==
    {[metadata |-> [providersPath |-> pp, controllersPath |-> cp, debug |-> FALSE,
                    providers |-> <<>>, controllers |-> <<>>],
      stack |-> CallerStack] :
         pp \in {<<PatDir>>, <<PatFileK, PatFileZ>>}, cp \in {<<>>, <<PatDeep>>}}

\* the calls by kind of declaration: over the service files without debug,
\* over the loader's other paths, with debug
DeclaredCalls == {c \in ModuleCalls : c.metadata \in ModuleMetadata /\ ~c.metadata.debug}
LoaderCalls == {c \in ModuleCalls : c.metadata \in LoaderMetadata}
DebugCalls == {c \in ModuleCalls : c.metadata.debug}

\* the files of hits whose cached content is not what fs.readFileSync would
\* give now
StaleHits(hits) ==
    {f \in FileIds :
         /\ \E i \in 1..Len(hits) : hits[i] = f
         /\ fileContentCache[f] # (IF storage[f].readable THEN Text(storage, f) ELSE Null)}

\* the state after an AutoModule call whose result is r
Called(metadata, stack, r) ==
    /\ Running
    /\ fileContentCache' = r.cache
    /\ call' = [status |-> r.status, metadata |-> metadata, stack |-> stack,
                store |-> metadataStore, baseDir |-> r.baseDir,
                providerClasses |-> r.providerClasses,
                controllerClasses |-> r.controllerClasses,
                conflictToken |-> r.conflictToken, moduleCalls |-> r.moduleCalls,
                providers |-> r.providers, controllers |-> r.controllers,
                callerProviders |-> r.callerProviders,
                callerControllers |-> r.callerControllers,
                reads |-> r.reads, requires |-> r.requires, globs |-> r.globs,
                log |-> r.log, loads |-> r.loads]
    /\ loaderRuns' = [count |-> loaderRuns.count + r.loads,
                      reads |-> loaderRuns.reads \o r.reads,
                      hits |-> loaderRuns.hits \o r.hits,
                      requires |-> loaderRuns.requires \o r.requires,
                      stale |-> loaderRuns.stale \cup StaleHits(r.hits)]
    /\ UNCHANGED <<interfaceMap, heap, metadataStore, lastConvert, firstConvert,
                   lastOptions, nTags, lastCheck, storage, globalObj>>

AutoModule(metadata, stack) ==
    Called(metadata, stack, autoModule(metadataStore, fileContentCache, metadata, stack))

NoCall == [status |-> "none", stack |-> <<>>,
           metadata |-> [providersPath |-> <<>>, controllersPath |-> <<>>, debug |-> FALSE,
                         providers |-> <<>>, controllers |-> <<>>],
           store |-> [u \in Units |-> [k \in MetadataKeys |-> Undefined]],
           baseDir |-> <<>>, providerClasses |-> <<>>, controllerClasses |-> <<>>,
           conflictToken |-> Undefined, moduleCalls |-> 0,
           providers |-> <<>>, controllers |-> <<>>,
           callerProviders |-> <<>>, callerControllers |-> <<>>,
           reads |-> <<>>, requires |-> <<>>, globs |-> <<>>, log |-> <<>>, loads |-> 0]

\* the bound on the loader invocations made before the AutoModule call
MaxLoads == 3

\* the state after an AutoModule call of another module, whose result is r
\* and whose error, if any, the caller catches
CalledBefore(r) ==
    /\ Running
    /\ loaderRuns.count < MaxLoads
    /\ fileContentCache' = r.cache
    /\ loaderRuns' = [count |-> loaderRuns.count + r.loads,
                      reads |-> loaderRuns.reads \o r.reads,
                      hits |-> loaderRuns.hits \o r.hits,
                      requires |-> loaderRuns.requires \o r.requires,
                      stale |-> loaderRuns.stale \cup StaleHits(r.hits)]
    /\ UNCHANGED <<interfaceMap, heap, metadataStore, lastConvert, firstConvert,
                   lastOptions, nTags, call, lastCheck, storage, globalObj>>

AutoModuleBefore(metadata, stack) ==
    CalledBefore(autoModule(metadataStore, fileContentCache, metadata, stack))


NoRuns == [count |-> 0, reads |-> <<>>, hits |-> <<>>, requires |-> <<>>, stale |-> {}]

\* a call of loadClassesFromPatterns(patterns, options) by the process, whose
\* error, if any, the caller catches
LoadClasses(patterns, options) ==
    /\ Running
    /\ loaderRuns.count < MaxLoads
    /\ LET r == loadClassesFromPatterns(patterns, options, fileContentCache)
       IN /\ fileContentCache' = r.cache
          /\ loaderRuns' = [count |-> loaderRuns.count + 1,
                            reads |-> loaderRuns.reads \o r.reads,
                            hits |-> loaderRuns.hits \o r.hits,
                            requires |-> loaderRuns.requires \o r.requires,
                            stale |-> loaderRuns.stale \cup StaleHits(r.hits)]
    /\ UNCHANGED <<interfaceMap, heap, metadataStore, lastConvert, firstConvert,
                   lastOptions, nTags, call, lastCheck, storage, globalObj>>

\* the files another program rewrites while the process runs, and what it
\* leaves: a text with the provider marker, a text without markers, a file
\* that cannot be read
WrittenFiles == {1, 6}

WrittenContents ==
    {[readable |-> TRUE, markers |-> {InjectableMarker}],
     [readable |-> TRUE, markers |-> {}],
     [readable |-> FALSE, markers |-> {}]}

\* a file of storage is rewritten between two calls of the loader
WriteFile(f, content) ==
    /\ Running
    /\ storage[f] # content
    /\ storage' = [storage EXCEPT ![f] = content]
    /\ UNCHANGED <<interfaceMap, heap, metadataStore, lastConvert, firstConvert,
                   lastOptions, nTags, fileContentCache, call, lastCheck, loaderRuns,
                   globalObj>>

\* pattern lists over the rewritten files
StorageChoices == {<<PatFileA, PatFileK>>, <<PatDir>>, <<PatFileK, PatFileZ>>}

---------------------------------------------------------------------------
(* The program *)

Init ==
    /\ interfaceMap = [s \in Symbols |-> 0]
    /\ heap = <<>>
    /\ metadataStore = [u \in Units |-> [k \in MetadataKeys |-> Undefined]]
    /\ lastConvert = [name |-> "", ret |-> Undefined]
    /\ firstConvert = [n \in Names |-> Undefined]
    /\ lastOptions = [u \in Units |-> NoOptions]
    /\ nTags = 0
    /\ fileContentCache = [f \in FileIds |-> NotCached]
    /\ call = NoCall
    /\ lastCheck = NoCheck
    /\ loaderRuns = NoRuns
    /\ storage = InitialStorage
    /\ globalObj = FirstLoad

\* the decorators and the identity registry, with every name
NextTagger ==
    \/ \E name \in Names : ConvertInterface(name)
    \/ \E u \in Units : \E o \in InjectableOptions : AutoInjectable(u, o)
    \/ \E u \in Units : AutoController(u)
    \/ \E i \in Instances : \E o \in 1..Len(heap) : InstanceOf(i, Iface(o))

SpecTagger == Init /\ [][NextTagger]_vars

\* the identity registry of a process that loads the identity module again,
\* with one unit tagged
NextRegistry ==
    \/ \E name \in Names : ConvertInterface(name)
    \/ LoadIdentityModule
    \/ \E o \in InjectableOptions : AutoInjectable(1, o)

SpecRegistry == Init /\ [][NextRegistry]_vars

\* the decorators alone, with the interfaces of ModuleNames
NextDecorators ==
    \/ \E name \in ModuleNames : ConvertInterface(name)
    \/ \E u \in Units : \E o \in InjectableOptions : AutoInjectable(u, o)
    \/ \E u \in Units : AutoController(u)

SpecDecorators == Init /\ [][NextDecorators]_vars

\* the whole program: units are tagged, then a module is declared over the
\* service files
Next ==
    \/ NextDecorators
    \/ \E c \in DeclaredCalls : AutoModule(c.metadata, c.stack)

Spec == Init /\ [][Next]_vars

\* the whole program with a module declared over the loader's other paths
NextFiles ==
    \/ NextDecorators
    \/ \E c \in LoaderCalls : AutoModule(c.metadata, c.stack)

SpecFiles == Init /\ [][NextFiles]_vars

\* the whole program with a module declared with debug
NextDebug ==
    \/ NextDecorators
    \/ \E c \in DebugCalls : AutoModule(c.metadata, c.stack)

SpecDebug == Init /\ [][NextDebug]_vars

\* the whole program with declarations of several patterns
NextOrder ==
    \/ NextDecorators
    \/ \E c \in OrderCalls : AutoModule(c.metadata, c.stack)

SpecOrder == Init /\ [][NextOrder]_vars

\* the whole program with declarations for the direct strategy
NextMatch ==
    \/ NextDecorators
    \/ \E c \in MatchCalls : AutoModule(c.metadata, c.stack)

SpecMatch == Init /\ [][NextMatch]_vars

\* the whole program with a module declared from different places
NextCaller ==
    \/ NextDecorators
    \/ \E c \in CallerCalls : AutoModule(c.metadata, c.stack)

SpecCaller == Init /\ [][NextCaller]_vars

\* the loader called again and again in one process, for provider and
\* controller pattern sets, before a module is declared
NextLoader ==
    \/ \E patterns \in (PathChoices \cup LoaderChoices) \ {<<>>} :
           LoadClasses(patterns, [baseDir |-> Cwd, debug |-> FALSE])
    \/ \E c \in ModuleCalls : AutoModule(c.metadata, c.stack)

SpecLoader == Init /\ [][NextLoader]_vars

\* the whole program with several modules declared one after the other, the
\* units tagged without a priority
NextModules ==
    \/ \E name \in ModuleNames : ConvertInterface(name)
    \/ \E u \in Units : \E o \in {x \in InjectableOptions : x.priority = Undefined} :
           AutoInjectable(u, o)
    \/ \E u \in Units : AutoController(u)
    \/ \E c \in BeforeCalls : AutoModuleBefore(c.metadata, c.stack)
    \/ \E c \in AfterCalls : AutoModule(c.metadata, c.stack)

SpecModules == Init /\ [][NextModules]_vars

\* the loader called again and again while files are rewritten on storage
NextStorage ==
    \/ \E patterns \in StorageChoices :
           LoadClasses(patterns, [baseDir |-> Cwd, debug |-> FALSE])
    \/ \E f \in WrittenFiles : \E content \in WrittenContents : WriteFile(f, content)

SpecStorage == Init /\ [][NextStorage]_vars

---------------------------------------------------------------------------
(* Properties of the identity registry *)

\* C1: every call convertInterface(n) returns the very object that the first
\* call convertInterface(n) returned, whatever calls came in between.
C1_IdentityIdempotence ==
    lastConvert.name # "" => lastConvert.ret = firstConvert[lastConvert.name]

\* a call that returned an identity created before another name's identity
C1_RepeatedCall ==
    /\ lastConvert.name # ""
    /\ Len(heap) = 2
    /\ lastConvert.ret = Iface(1)

\* C2: two identities returned by convertInterface are the same object if and
\* only if their names are equal: distinct names have distinct objects, and a
\* name has one object, the one the map holds for its symbol.
C2_EqualIffSameName ==
    /\ \A n, m \in Names :
           (firstConvert[n] # Undefined /\ firstConvert[m] # Undefined)
               => (firstConvert[n] = firstConvert[m] <=> n = m)
    /\ \A a, b \in Symbols :
           (interfaceMap[a] # 0 /\ interfaceMap[b] # 0)
               => (interfaceMap[a] = interfaceMap[b] <=> a = b)
    /\ \A n \in Names :
           firstConvert[n] # Undefined
               => /\ firstConvert[n] = Iface(interfaceMap[SymbolFor(n)])
                  /\ heap[firstConvert[n].ref].name = n
    /\ lastConvert.name # ""
           => lastConvert.ret = Iface(interfaceMap[SymbolFor(lastConvert.name)])

\* both names have their identity
C2_TwoNames ==
    /\ \A n \in Names : firstConvert[n] # Undefined
    /\ interfaceMap[SymbolFor("X")] # interfaceMap[SymbolFor("Y")]

\* C10: instance instanceof X is true exactly when the identity AutoInjectable
\* stored on the instance's unit, the one getAutoInjectableToken reads, is X.
C10_CapabilityCheck ==
    (lastCheck.done /\ lastCheck.instance # Undefined)
        => (lastCheck.result
                <=> getAutoInjectableToken(metadataStore, lastCheck.instance.ref)
                        = lastCheck.iface)

---------------------------------------------------------------------------
(* Properties of the registration *)

Range(seq) == {seq[i] : i \in 1..Len(seq)}

\* the provider entries the call's discovery added behind the explicit ones
Discovered ==
    SubSeq(call.providers, Len(call.metadata.providers) + 1, Len(call.providers))

\* the identity groups of the call, in the order the call made them
CallGroups == BuildImplMap(call.store, call.providerClasses, <<>>)

\* the units of a group, their priorities and the units with the greatest one
Members(impls) == {impls[i].cls : i \in 1..Len(impls)}

PriorityIn(impls, u) == impls[CHOOSE i \in 1..Len(impls) : impls[i].cls = u].priority

TopHolders(impls) ==
    {u \in Members(impls) : \A v \in Members(impls) : PriorityIn(impls, v) <= PriorityIn(impls, u)}

GroupOf(groups, token) ==
    groups[CHOOSE i \in 1..Len(groups) : groups[i].token = token].impls

\* C3: for a group with two or more member units, the call raises Conflict
\* if and only if two or more members hold the group's greatest priority.
C3_TieDetection ==
    /\ call.status = "registered"
           => \A i \in 1..Len(CallGroups) :
                  Cardinality(Members(CallGroups[i].impls)) >= 2
                      => Cardinality(TopHolders(CallGroups[i].impls)) < 2
    /\ call.status = "conflict"
           => (Cardinality(Members(GroupOf(CallGroups, call.conflictToken))) >= 2
                   => Cardinality(TopHolders(GroupOf(CallGroups, call.conflictToken))) >= 2)

StrictlyGreatestBound(groups, entries) ==
    \A i \in 1..Len(groups) :
        \E k \in 1..Len(groups[i].impls) :
            /\ \A j \in 1..Len(groups[i].impls) :
                   j # k => groups[i].impls[j].priority < groups[i].impls[k].priority
            /\ \E e \in entries : e.provide = groups[i].token
            /\ \A e \in entries :
                   e.provide = groups[i].token => e.useClass = Class(groups[i].impls[k].cls)

\* C4: when the call raises no Conflict, the unit bound to a group's identity
\* is the member whose priority is strictly greater than every other member's.
C4_StrictlyGreatestWins ==
    call.status = "registered" => StrictlyGreatestBound(CallGroups, Range(Discovered))

\* a registered group of two units whose winner was discovered last
C4_LaterUnitWins ==
    /\ call.status = "registered"
    /\ \E i \in 1..Len(CallGroups) :
           /\ Len(CallGroups[i].impls) = 2
           /\ \E e \in Range(Discovered) :
                  /\ e.provide = CallGroups[i].token
                  /\ e.useClass = Class(CallGroups[i].impls[2].cls)

\* the provider candidates the call discovered
Candidates == {u \in Range(call.providerClasses) : isAutoInjectable(call.store, u)}

OneEntryPerIdentity(entries, candidates) ==
    /\ \A i, j \in 1..Len(entries) : entries[i].provide = entries[j].provide => i = j
    /\ call.status = "registered"
           => {e.provide : e \in Range(entries)}
                  = {getAutoInjectableToken(call.store, u) : u \in candidates}
    /\ \A e \in Range(entries) :
           \E u \in candidates :
               /\ getAutoInjectableToken(call.store, u) = e.provide
               /\ e.useClass = Class(u)

\* C5: the discovery of one call never adds two entries for one identity, and
\* a call that registers adds one entry {provide: identity, useClass: unit}
\* for each identity of its discovered candidates.
C5_OneBindingPerIdentity ==
    call.status # "none" => OneEntryPerIdentity(Discovered, Candidates)

\* three candidates registered under two identities
C5_SharedIdentity ==
    /\ call.status = "registered"
    /\ Cardinality(Candidates) = 3
    /\ Len(Discovered) = 2

\* the orders in which the units of a discovery may come
DiscoveryOrders(seq) ==
    {p \in [1..Len(seq) -> Range(seq)] :
        \A x \in Range(seq) :
            Cardinality({i \in 1..Len(seq) : p[i] = x})
                = Cardinality({i \in 1..Len(seq) : seq[i] = x})}

\* the resolution of the candidates among classes: Conflict, or the bindings
ResolutionOf(store, classes) ==
    ResolveAll(BuildImplMap(store, classes, <<>>), NoResolution(<<>>))

SameOutcome(r, q) ==
    /\ r.threw = q.threw
    /\ ~r.threw => Range(r.allProviders) = Range(q.allProviders)

\* the outcome for one identity: Conflict, or the unit that wins
GroupOutcome(r) == IF r.conflict THEN 0 ELSE r.winner.cls

\* the lists of units a scan of PathChoices gives, and their orders
ScannedLists ==
    {LoadPatterns(NoLoadFrom(InitialStorage, [f \in FileIds |-> NotCached], FALSE),
                  pp, Cwd).classes :
         pp \in PathChoices \cup LoaderChoices}

OrdersTable == [seq \in ScannedLists |-> DiscoveryOrders(seq)]

OrdersOf(seq) ==
    IF seq \in ScannedLists THEN OrdersTable[seq] ELSE DiscoveryOrders(seq)

\* every identity has the same outcome in the groups pg as in groups
GroupsAgree(pg, groups) ==
    \A i \in 1..Len(groups) :
        GroupOutcome(ResolveGroup(GroupOf(pg, groups[i].token)))
            = GroupOutcome(ResolveGroup(groups[i].impls))

OrderAgrees(pg, groups, base) ==
    /\ SameOutcome(ResolveAll(pg, NoResolution(<<>>)), base)
    /\ GroupsAgree(pg, groups)

OrdersAgree(store, orders, groups, base) ==
    \A p \in orders : OrderAgrees(BuildImplMap(store, p, <<>>), groups, base)

\* C6: every permutation of the discovery order gives every identity the same
\* outcome, the same winning unit or Conflict, and the call the same end.
C6_ResolverDeterminism ==
    call.status # "none"
        => OrdersAgree(call.store, OrdersOf(call.providerClasses), CallGroups,
                       ResolutionOf(call.store, call.providerClasses))

\* three units discovered, tagged with one identity, descending priorities last
C6_ThreeOrdered ==
    /\ call.status = "registered"
    /\ Len(CallGroups) = 1
    /\ Len(CallGroups[1].impls) = 3
    /\ Cardinality(Members(CallGroups[1].impls)) = 3
    /\ CallGroups[1].impls[1].priority < CallGroups[1].impls[3].priority

\* two entries of a group share its greatest priority
HasTopTie(impls) ==
    \E j, k \in 1..Len(impls) :
        /\ j # k
        /\ impls[j].priority = impls[k].priority
        /\ \A i \in 1..Len(impls) : impls[i].priority <= impls[j].priority

SomeTopTie(groups) == \E i \in 1..Len(groups) : HasTopTie(groups[i].impls)

\* C7: when any group has a tie at its top priority the Conflict error leaves
\* the call and Module() is never called, whatever the other groups are.
C7_ConflictAborts ==
    call.status # "none"
        => /\ SomeTopTie(CallGroups) => call.status = "conflict"
           /\ call.status = "conflict"
                  => /\ call.moduleCalls = 0
                     /\ call.providers = <<>>
                     /\ call.controllers = <<>>

\* a Conflict with another group that resolves cleanly
C7_OneTiedGroup ==
    /\ call.status = "conflict"
    /\ \E i \in 1..Len(CallGroups) : ~HasTopTie(CallGroups[i].impls)

\* the latest AutoInjectable of u gave no interfaceMetadata
SelfTagged(u) ==
    lastOptions[u].applied /\ ~Truthy(lastOptions[u].options.interfaceMetadata)

\* C8: a unit tagged without interfaceMetadata has itself as its identity, and
\* when discovered it yields one binding, with itself as provide and useClass.
C8_SelfBindingDefault ==
    \A u \in Units :
        SelfTagged(u)
            => /\ getAutoInjectableToken(metadataStore, u) = Class(u)
               /\ (call.status # "none" /\ u \in Range(call.providerClasses))
                      => /\ call.conflictToken # Class(u)
                         /\ call.status = "registered"
                                => /\ Cardinality({i \in 1..Len(Discovered) :
                                          Discovered[i].provide = Class(u)}) = 1
                                   /\ \A e \in Range(Discovered) :
                                          e.provide = Class(u) => e.useClass = Class(u)

\* the metadata with every absent priority written as priority 0
ExplicitZero(store) ==
    [u \in Units |->
        IF store[u][AUTO_PRIORITY_KEY] = Undefined
        THEN [store[u] EXCEPT ![AUTO_PRIORITY_KEY] = Num(0)]
        ELSE store[u]]

\* the resolution r of the call is the one with the priorities written out
SameWithZero(r, zero) ==
    /\ r = zero
    /\ r.threw <=> call.status = "conflict"
    /\ call.status = "registered" => r.allProviders = Discovered

\* C9: getAutoInjectablePriority returns the priority given explicitly and 0
\* for a unit never given one, and the resolution is the one of the same units
\* with the absent priorities written as 0.
C9_PriorityDefault ==
    /\ \A u \in Units :
           lastOptions[u].applied
               => getAutoInjectablePriority(metadataStore, u)
                      = IF lastOptions[u].explicitPriority = Undefined
                        THEN Num(0)
                        ELSE lastOptions[u].explicitPriority
    /\ call.status # "none"
           => SameWithZero(ResolutionOf(call.store, call.providerClasses),
                           ResolutionOf(ExplicitZero(call.store), call.providerClasses))

\* a Conflict between a unit without priority and a unit with priority 0
C9_DefaultTiesWithZero ==
    /\ call.status = "conflict"
    /\ \E u, v \in Candidates :
           /\ lastOptions[u].explicitPriority = Undefined
           /\ lastOptions[v].explicitPriority = Num(0)
           /\ getAutoInjectableToken(call.store, u) = call.conflictToken
           /\ getAutoInjectableToken(call.store, v) = call.conflictToken
           /\ call.conflictToken.kind = "iface"

---------------------------------------------------------------------------
(* Properties of the descriptor *)

\* C11: in the descriptor the caller's providers and controllers come first,
\* unchanged and in their order, every discovered entry comes behind them
\* (also one with the identity of an explicit provider), and the caller's own
\* arrays are as they were.
C11_ExplicitPassThrough ==
    /\ call.status # "none"
           => /\ call.callerProviders = call.metadata.providers
              /\ call.callerControllers = call.metadata.controllers
    /\ call.status = "registered"
           => /\ Len(call.providers) = Len(call.metadata.providers) + Len(CallGroups)
              /\ SubSeq(call.providers, 1, Len(call.metadata.providers))
                     = call.metadata.providers
              /\ Len(call.controllers) >= Len(call.metadata.controllers)
              /\ SubSeq(call.controllers, 1, Len(call.metadata.controllers))
                     = call.metadata.controllers

\* a discovered binding with the identity of an explicit provider
C11_SameIdentityDiscovered ==
    /\ call.status = "registered"
    /\ call.metadata.providers # <<>>
    /\ \E e \in Range(Discovered) : e.provide = call.metadata.providers[1].provide
    /\ Len(call.controllers) > Len(call.metadata.controllers)

\* the units found under providersPath that carry the provider tag, the ones
\* found under controllersPath that carry the controller tag, read from the
\* metadata the call saw
ProviderUnits ==
    {u \in Range(call.providerClasses) :
         GetMetadata(call.store, AUTO_INJECTABLE_KEY, u) = True}

ControllerUnits ==
    {u \in Range(call.controllerClasses) :
         GetMetadata(call.store, AUTO_CONTROLLER_KEY, u) = True}

TokenOf(u) == GetMetadata(call.store, AUTO_TOKEN_KEY, u)

PriorityOf(u) ==
    IF GetMetadata(call.store, AUTO_PRIORITY_KEY, u) = Undefined THEN 0
    ELSE GetMetadata(call.store, AUTO_PRIORITY_KEY, u).ref

\* the units that hold, alone, the greatest priority of their identity
GroupWinners ==
    {u \in ProviderUnits :
         \A v \in ProviderUnits \ {u} : TokenOf(v) = TokenOf(u) => PriorityOf(v) < PriorityOf(u)}

DiscoveredControllers ==
    SubSeq(call.controllers, Len(call.metadata.controllers) + 1, Len(call.controllers))

\* C12: in a descriptor, the discovered provider entries are exactly the
\* winners of the identity groups of the provider-tagged units found under
\* providersPath, the discovered controllers exactly the controller-tagged
\* units found under controllersPath; a unit with only the controller tag found
\* under providersPath is no provider, one with only the provider tag found
\* under controllersPath is no controller.
C12_DiscoveryEndToEnd ==
    call.status = "registered"
        => /\ Range(Discovered)
                  = {[provide |-> TokenOf(u), useClass |-> Class(u)] : u \in GroupWinners}
           /\ Len(Discovered) = Cardinality(GroupWinners)
           /\ Range(DiscoveredControllers) = {Class(u) : u \in ControllerUnits}
           /\ \A u \in Range(call.providerClasses) \ ProviderUnits :
                  \A i \in 1..Len(Discovered) : Discovered[i].useClass # Class(u)
           /\ \A u \in Range(call.controllerClasses) \ ControllerUnits :
                  Class(u) \notin Range(DiscoveredControllers)

\* a descriptor of a call that found a controller-only unit under providersPath
\* and a provider-only unit under controllersPath, and discovered both kinds
C12_BothKindsFound ==
    /\ call.status = "registered"
    /\ Discovered # <<>>
    /\ DiscoveredControllers # <<>>
    /\ \E u \in Range(call.providerClasses) :
           u \notin ProviderUnits /\ isAutoController(call.store, u)
    /\ \E u \in Range(call.controllerClasses) :
           u \notin ControllerUnits /\ isAutoInjectable(call.store, u)

---------------------------------------------------------------------------
(* Properties of the loader *)

\* the files a pattern of the call's providersPath matches
MatchedBy(patterns) ==
    UNION {Range(GlobSync(ResolvePattern(patterns[i], call.baseDir), 1)) :
               i \in 1..Len(patterns)}

\* a file the loader cannot read, or whose require throws
BadFile(f) == ~Files[f].readable \/ Files[f].requireThrows

\* a source file with a marker that can be read and required
GoodFile(f) == isTsOrJs(f) /\ Files[f].markers # {} /\ ~BadFile(f)

\* C13: a file that cannot be read, or whose require throws, never makes the
\* loader raise: the file contributes no units and the units of every other
\* matched file are returned.
C13_BadFileSkipped ==
    call.status # "none"
        => /\ call.status # "error"
           /\ \A f \in MatchedBy(call.metadata.providersPath) :
                  GoodFile(f)
                      => Range(ExportedClasses(Files[f].exports))
                             \subseteq Range(call.providerClasses)

\* the files matched by the patterns of the loader invocations the call made:
\* the provider scan, and the controller scan when the call reached it
MatchedByCall ==
    MatchedBy(call.metadata.providersPath)
    \cup (IF call.status = "registered" THEN MatchedBy(call.metadata.controllersPath) ELSE {})

\* C14: a matched source file that can be read is required if and only if its
\* text contains '@AutoInjectable(' or '@AutoController('; a file with neither
\* is never required.
C14_RequiredIffMarked ==
    call.status # "none"
        => /\ \A f \in MatchedByCall :
                  isTsOrJs(f) /\ Files[f].readable
                      => (f \in Range(call.requires) <=> Files[f].markers # {})
           /\ \A f \in Range(call.requires) : Files[f].markers # {}

\* C15: over the loader invocations of one process, each file is read from
\* storage at most once; every other use of the file is served from the
\* content cache, which holds what the read gave.
C15_ReadAtMostOnce ==
    /\ \A i, j \in 1..Len(loaderRuns.reads) :
           loaderRuns.reads[i] = loaderRuns.reads[j] => i = j
    /\ \A f \in Range(loaderRuns.hits) : f \in Range(loaderRuns.reads)
    /\ \A f \in FileIds :
           fileContentCache[f] # NotCached <=> f \in Range(loaderRuns.reads)

\* three invocations, the later ones served from the cache for a file the
\* first one read, the unreadable file among the files used again
C15_ThreeInvocations ==
    /\ loaderRuns.count >= 3
    /\ Len(loaderRuns.hits) >= 3
    /\ \E f \in Range(loaderRuns.hits) : ~Files[f].readable
    /\ call.status # "none"

\* a pattern without '**' whose file part has a '*' and whose directory part
\* cannot be listed; a pattern without wildcard that names no plain file
ListingFails(p) ==
    ~IncludesDoubleStar(p) /\ Includes(p.base, <<"*">>) /\ ~IsDirectory(p.segs)

NamesNoFile(p) ==
    /\ ~IncludesDoubleStar(p) /\ ~Includes(p.base, <<"*">>)
    /\ ~\E f \in FileIds : Files[f].dir = p.segs /\ Files[f].name = p.base

\* the units of the files glob matches for the pattern
GlobUnits(p) ==
    UNION {Range(ExportedClasses(Files[f].exports)) :
               f \in {g \in Range(GlobSync(p, 1)) : GoodFile(g)}}

ResolvedProviderPatterns ==
    {ResolvePattern(call.metadata.providersPath[i], call.baseDir) :
         i \in 1..Len(call.metadata.providersPath)}

\* C16: a directory listing that fails raises no error: the pattern is given
\* to glob and the units glob finds are returned; a pattern without wildcard
\* that names no plain file is given to glob as well.  An error that leaves
\* the loader comes from a require.
C16_ListingFailureRecovered ==
    /\ call.status = "error" => \E f \in Range(call.requires) : Files[f].requireThrows
    /\ call.status \in {"registered", "conflict"}
           => \A p \in ResolvedProviderPatterns :
                  ListingFails(p) \/ NamesNoFile(p)
                      => /\ p \in Range(call.globs)
                         /\ GlobUnits(p) \subseteq Range(call.providerClasses)

\* a descriptor from a pattern whose directory cannot be listed and a pattern
\* that names no file, with a binding for the unit glob found
C16_GlobTookOver ==
    /\ call.status = "registered"
    /\ \E p \in ResolvedProviderPatterns : ListingFails(p) /\ GlobUnits(p) # {}
    /\ \E p \in ResolvedProviderPatterns : NamesNoFile(p)
    /\ Discovered # <<>>

\* the units defined by the files the patterns match
UnitsUnder(patterns) ==
    UNION {Range(ExportedClasses(Files[f].exports)) : f \in MatchedBy(patterns)}

\* no pattern of the call matches a file that defines a tagged unit
NoCandidate ==
    /\ \A u \in UnitsUnder(call.metadata.providersPath) : ~isAutoInjectable(call.store, u)
    /\ \A u \in UnitsUnder(call.metadata.controllersPath) : ~isAutoController(call.store, u)

\* C17: when the patterns match no file, or only files that define no tagged
\* unit, the call raises no error and the descriptor holds exactly the
\* explicit providers and controllers.
C17_NoCandidateNoError ==
    call.status # "none" /\ NoCandidate
        => /\ call.status = "registered"
           /\ call.providers = call.metadata.providers
           /\ call.controllers = call.metadata.controllers

---------------------------------------------------------------------------
(* Properties of the tagger, continued *)

\* what the four queries answer for a unit
Queries(store, u) ==
    <<isAutoInjectable(store, u), getAutoInjectableToken(store, u),
      getAutoInjectablePriority(store, u), isAutoController(store, u)>>

\* C18: AutoInjectable applied to a unit again with the options of its
\* application before, and AutoController applied to a unit that carries the
\* controller tag, leave the answers of isAutoInjectable,
\* getAutoInjectableToken, getAutoInjectablePriority and isAutoController for
\* every unit as they were.
C18_TaggingIdempotent ==
    [][\A u \in Units :
           \/ lastOptions[u].applied /\ AutoInjectable(u, lastOptions[u].options)
           \/ isAutoController(metadataStore, u) /\ AutoController(u)
           => \A v \in Units : Queries(metadataStore', v) = Queries(metadataStore, v)
      ]_vars

\* two decorator applications, both AutoInjectable() on one unit: no other
\* unit carries metadata, the unit has no controller tag, and no identity or
\* priority was there to give
C18_TaggedTwice ==
    \E u \in Units :
        /\ nTags = 2
        /\ heap = <<>>
        /\ lastOptions[u].applied
        /\ lastOptions[u].explicitPriority = Undefined
        /\ ~isAutoController(metadataStore, u)
        /\ \A v \in Units \ {u} : \A k \in MetadataKeys : metadataStore[v][k] = Undefined

\* C19: after a unit is tagged again with other options, its identity and
\* priority are those of the latest application, with the defaults (the unit
\* itself, priority 0) for what that application does not give.
C19_RetagOverwrites ==
    \A u \in Units :
        lastOptions[u].applied
            => /\ getAutoInjectableToken(metadataStore, u)
                      = IF Truthy(lastOptions[u].options.interfaceMetadata)
                        THEN lastOptions[u].options.interfaceMetadata
                        ELSE Class(u)
               /\ getAutoInjectablePriority(metadataStore, u)
                      = IF lastOptions[u].options.priority # Undefined
                        THEN lastOptions[u].options.priority
                        ELSE Num(0)

---------------------------------------------------------------------------
(* Properties of the debug option *)

\* the call of the run ended as the call r did
SameEnding(r) ==
    /\ r.status = call.status
    /\ r.moduleCalls = call.moduleCalls
    /\ r.providers = call.providers
    /\ r.controllers = call.controllers
    /\ r.conflictToken = call.conflictToken
    /\ r.providerClasses = call.providerClasses
    /\ r.controllerClasses = call.controllerClasses
    /\ r.cache = fileContentCache

\* C20: the call with the other value of debug, on the same metadata, files
\* and cache, ends the same way: the same error or the same descriptor handed
\* to Module(), the same units loaded, the same cache.
C20_DebugSameOutcome ==
    call.status # "none" /\ loaderRuns.count = call.loads
        => SameEnding(ProviderPart(call.store, [f \in FileIds |-> NotCached],
                                   [call.metadata EXCEPT !.debug = ~@], call.baseDir))

\* a call with debug that printed the files it loaded and its listing and
\* handed discovered providers and controllers to Module()
C20_DebugRegistered ==
    /\ call.status = "registered"
    /\ call.metadata.debug
    /\ \E i \in 1..Len(call.log) : call.log[i].msg = "Loaded classes from"
    /\ \E i \in 1..Len(call.log) : call.log[i].msg = "Token"
    /\ Discovered # <<>>
    /\ DiscoveredControllers # <<>>

---------------------------------------------------------------------------
(* Properties of the loader's result *)

\* C21: no unit comes twice in the units the loader returns, and a Conflict is
\* raised only when two distinct candidates share the identity and its
\* greatest priority.
C21_LoaderReturnsSet ==
    call.status # "none"
        => /\ \A i, j \in 1..Len(call.providerClasses) :
                  call.providerClasses[i] = call.providerClasses[j] => i = j
           /\ \A i, j \in 1..Len(call.controllerClasses) :
                  call.controllerClasses[i] = call.controllerClasses[j] => i = j
           /\ call.status = "conflict"
                  => \E u, v \in ProviderUnits :
                         /\ u # v
                         /\ TokenOf(u) = call.conflictToken
                         /\ TokenOf(v) = call.conflictToken
                         /\ PriorityOf(u) = PriorityOf(v)
                         /\ \A w \in ProviderUnits :
                                TokenOf(w) = call.conflictToken
                                    => PriorityOf(w) <= PriorityOf(u)

---------------------------------------------------------------------------
(* Properties of the base directory *)

\* a frame outside node_modules, outside the reflect-metadata package and
\* other than the auto-module decorator file
OutsideInternals(line) ==
    /\ line.matches
    /\ \A i \in 1..Len(Dirname(line.filePath)) :
           line.filePath[i] \notin {"node_modules", "reflect-metadata"}
    /\ line.filePath[Len(line.filePath)]
           \notin {"auto-module.decorator.js", "auto-module.decorator.ts"}

\* the directory of the first such frame, the working directory without one
RECURSIVE FirstCallerDir(_)
FirstCallerDir(stack) ==
    IF stack = <<>> THEN Cwd
    ELSE IF OutsideInternals(Head(stack)) THEN Dirname(Head(stack).filePath)
    ELSE FirstCallerDir(Tail(stack))

\* a pattern as the claim resolves it against dir
ResolvedAgainst(p, dir) ==
    IF p.abs THEN p ELSE [abs |-> TRUE, segs |-> dir \o p.segs, base |-> p.base]

\* C22: the base directory of a call is the directory of the first frame of
\* the call chain that is not inside node_modules, not part of reflect-metadata
\* and not the auto-module decorator file, and the working directory when
\* there is none; the units found are those of the relative patterns resolved
\* against it and of the absolute patterns as they are.
C22_BaseDirInference ==
    call.status # "none"
        => /\ call.baseDir = FirstCallerDir(call.stack)
           /\ call.status # "error"
                  => Range(call.providerClasses)
                         = UNION {GlobUnits(ResolvedAgainst(call.metadata.providersPath[i],
                                                            FirstCallerDir(call.stack))) :
                                      i \in 1..Len(call.metadata.providersPath)}

---------------------------------------------------------------------------
(* Properties of the order of discovery *)

\* the units one pattern finds from baseDir, in the order it finds them
FoundBy(pattern, baseDir) ==
    loadClassesFromPatterns(<<pattern>>, [baseDir |-> baseDir, debug |-> FALSE],
                            [f \in FileIds |-> NotCached]).classes

\* the units of each pattern, the patterns taken in the order supplied
RECURSIVE InPatternOrder(_, _)
InPatternOrder(patterns, baseDir) ==
    IF patterns = <<>> THEN <<>>
    ELSE FoundBy(Head(patterns), baseDir) \o InPatternOrder(Tail(patterns), baseDir)

\* the controller-tagged units of a list, in the order of the list
RECURSIVE TaggedControllers(_)
TaggedControllers(classes) ==
    IF classes = <<>> THEN <<>>
    ELSE (IF GetMetadata(call.store, AUTO_CONTROLLER_KEY, Head(classes)) = True
          THEN <<Class(Head(classes))>> ELSE <<>>)
         \o TaggedControllers(Tail(classes))

\* C23: the result of a loader invocation holds the units of the first pattern,
\* then those of the second, and so on in the order the patterns were supplied;
\* the discovered controllers stand in the descriptor in the order they were
\* discovered, behind the explicit ones.
C23_DiscoveryOrder ==
    /\ call.status \in {"registered", "conflict"}
           => call.providerClasses
                  = InPatternOrder(call.metadata.providersPath, call.baseDir)
    /\ call.status = "registered"
           => /\ call.controllerClasses
                     = InPatternOrder(call.metadata.controllersPath, call.baseDir)
              /\ call.controllers
                     = call.metadata.controllers \o TaggedControllers(call.controllerClasses)

\* a descriptor with an explicit controller and the discovered ones behind it,
\* of a call whose second provider pattern found a unit the directory lists
\* first
C23_LaterPatternLater ==
    /\ call.status = "registered"
    /\ call.metadata.providersPath = <<PatFileB, PatFileA>>
    /\ call.providerClasses = <<2, 1>>
    /\ call.metadata.controllersPath = <<PatFileB, PatDeep>>
    /\ call.controllerClasses = <<2, 1, 2, 3>>
    /\ call.controllers = <<Class(3), Class(2), Class(1), Class(2)>>

---------------------------------------------------------------------------
(* Properties of the direct strategy *)

\* a name matches a file part read as a wildcard pattern: '*' is any run of
\* characters, every other character is itself
RECURSIVE WildcardMatch(_, _)
WildcardMatch(pat, name) ==
    IF pat = <<>> THEN name = <<>>
    ELSE IF Head(pat) = "*"
         THEN \/ WildcardMatch(Tail(pat), name)
              \/ name # <<>> /\ WildcardMatch(pat, Tail(name))
         ELSE name # <<>> /\ Head(pat) = Head(name) /\ WildcardMatch(Tail(pat), Tail(name))

\* the call has one provider pattern, without '**', whose file part has a '*'
\* and whose directory can be listed
DirectCall ==
    /\ call.status # "none"
    /\ Len(call.metadata.providersPath) = 1
    /\ call.metadata.controllersPath = <<>>
    /\ ~IncludesDoubleStar(call.metadata.providersPath[1])
    /\ Includes(call.metadata.providersPath[1].base, <<"*">>)
    /\ IsDirectory(call.baseDir \o call.metadata.providersPath[1].segs)

\* C24: the source files the direct strategy hands to the pre-filter, which
\* reads each of them, are exactly the source files of the pattern's directory
\* whose name matches the file part as a wildcard pattern, '*' standing for any
\* run of characters and every other character for itself.
C24_DirectMatchRule ==
    DirectCall
        => Range(call.reads)
               = {f \in FileIds :
                      /\ Files[f].dir = call.baseDir \o call.metadata.providersPath[1].segs
                      /\ WildcardMatch(call.metadata.providersPath[1].base, Files[f].name)
                      /\ isTsOrJs(f)}

---------------------------------------------------------------------------
(* Properties of the ending of a call *)

\* C25: a call of AutoModule ends in one of two ways: the Module primitive
\* was called exactly once, with the caller's entries followed by the
\* discovered ones, or a Conflict error was raised and the primitive was not
\* called.
C25_TwoEndings ==
    call.status # "none"
        => \/ /\ call.status = "registered"
              /\ call.moduleCalls = 1
              /\ SubSeq(call.providers, 1, Len(call.metadata.providers)) = call.metadata.providers
              /\ SubSeq(call.controllers, 1, Len(call.metadata.controllers))
                     = call.metadata.controllers
           \/ /\ call.status = "conflict"
              /\ call.moduleCalls = 0

---------------------------------------------------------------------------
(* Properties of the content cache *)

\* what a step added to a history list
Added(before, after) == SubSeq(after, Len(before) + 1, Len(after))

\* a cached file keeps its entry in a step, is not read from storage, and is
\* required in the step exactly when it is served from the cache and the cached
\* text holds a marker
CachedFileKept(f, cacheAfter, reads, hits, requires) ==
    /\ cacheAfter[f] = fileContentCache[f]
    /\ f \notin Range(reads)
    /\ f \in Range(requires)
           <=> /\ f \in Range(hits)
               /\ fileContentCache[f].kind = "string"
               /\ fileContentCache[f].markers # {}

\* C26: a step never alters or removes an entry of the content cache; a file
\* whose first read failed is not read again and not loaded, a file rewritten
\* on storage after its first read is pre-filtered by the text in the cache.
C26_CacheOnlyGrows ==
    [][\A f \in FileIds :
           fileContentCache[f] # NotCached
               => CachedFileKept(f, fileContentCache',
                                 Added(loaderRuns.reads, loaderRuns'.reads),
                                 Added(loaderRuns.hits, loaderRuns'.hits),
                                 Added(loaderRuns.requires, loaderRuns'.requires))]_vars

\* a file whose first read failed and that can be read by now, and a file that
\* lost its marker on storage, were both served from the cache, the first
\* never loaded, the second loaded twice
C26_StaleEntriesServed ==
    /\ {1, 6} \subseteq loaderRuns.stale
    /\ fileContentCache[6] = Null
    /\ storage[6] = [readable |-> TRUE, markers |-> {InjectableMarker}]
    /\ 6 \notin Range(loaderRuns.requires)
    /\ storage[1].markers = {}
    /\ Cardinality({i \in 1..Len(loaderRuns.requires) : loaderRuns.requires[i] = 1}) >= 2

---------------------------------------------------------------------------
(* Properties of calls that follow one another *)

\* the call ended as r did
EndedAs(r) ==
    /\ call.status = r.status
    /\ call.conflictToken = r.conflictToken
    /\ call.providers = r.providers
    /\ call.controllers = r.controllers

\* C27: an AutoModule call ends as it would have ended as the first call of
\* the process, before any other AutoModule call and any convertInterface call:
\* with the same Conflict, or with the same providers and controllers handed
\* to the host.
C27_CallsIndependent ==
    call.status # "none"
        => EndedAs(autoModule(call.store, [f \in FileIds |-> NotCached],
                              call.metadata, call.stack))

\* a call that came after other calls and after convertInterface, read no file
\* from storage and handed discovered providers and controllers to the host
C27_ServedFromCache ==
    /\ call.status = "registered"
    /\ loaderRuns.count > call.loads
    /\ heap # <<>>
    /\ call.reads = <<>>
    /\ Discovered # <<>>
    /\ DiscoveredControllers # <<>>

---------------------------------------------------------------------------
(* Properties of the identity map *)

\* C28: the process has one identity map: a load of the identity module takes
\* the Map the global object holds, and no step removes or overwrites an entry
\* of it.
C28_OneMapForGood ==
    [][/\ globalObj'.slot = globalObj.slot
       /\ globalObj'.maps = 1
       /\ \A s \in Symbols : interfaceMap[s] # 0 => interfaceMap'[s] = interfaceMap[s]]_vars

\* the identity module was loaded three times, both names have their entry,
\* and the latest convertInterface returned the identity made first
C28_ReloadedWithEntries ==
    /\ globalObj.loads = 3
    /\ globalObj.slot = MapObject(1)
    /\ \A s \in Symbols : interfaceMap[s] # 0
    /\ Len(heap) = 2
    /\ lastConvert.ret = Iface(1)

---------------------------------------------------------------------------
(* Properties of the phases of a call *)

\* the files only the call's controllersPath matches
ControllerOnlyFiles ==
    MatchedBy(call.metadata.controllersPath) \ MatchedBy(call.metadata.providersPath)

\* in reads, no file of later comes before a file outside later
LaterFilesLast(reads, later) ==
    \A i, j \in 1..Len(reads) : reads[i] \in later /\ reads[j] \notin later => j < i

\* none of the files was read, cached or required by the call
Untouched(files) ==
    \A f \in files :
        /\ f \notin Range(call.reads)
        /\ f \notin Range(call.requires)
        /\ fileContentCache[f] = NotCached

\* C29: a call loads its provider patterns and resolves the groups before it
\* scans a controller pattern, and hands the descriptor to Module() last: the
\* files only controllersPath matches are read after the provider files, and
\* when the resolution raises the Conflict they were not read, cached or
\* loaded and Module() was not called.
C29_ProvidersBeforeControllers ==
    /\ call.status = "registered"
           => /\ LaterFilesLast(call.reads, ControllerOnlyFiles)
              /\ LaterFilesLast(call.requires, ControllerOnlyFiles)
    /\ call.status = "conflict"
           => /\ call.moduleCalls = 0
              /\ call.loads = 1
              /\ call.controllerClasses = <<>>
              /\ Untouched(ControllerOnlyFiles)

\* a call that ended with the Conflict, given a controllersPath that alone
\* matches two files
C29_ConflictBeforeControllers ==
    /\ call.status = "conflict"
    /\ call.metadata.providersPath = <<PatFileB, PatFileA>>
    /\ call.metadata.controllersPath = <<PatFileB, PatDeep>>
    /\ ControllerOnlyFiles = {3, 4}
    /\ Range(call.reads) = {1, 2}

===========================================================================
